---------------------------- MODULE Spec2Model ----------------------------
(***************************************************************************)
(* A model of hk-bus-time-between-stops (src/main.py): the segment-match   *)
(* resolver find_best_match, the file-backed estimate store (read_file,    *)
(* write_file under the process-wide file_lock), the sampling-rate         *)
(* governor roll_chance, and the worker pool (run, run_repeatedly, main).  *)
(*                                                                         *)
(* Numbers.  The program computes with Python floats.  The model computes  *)
(* with exact rationals <<n, d>> (d > 0, lowest terms), so float rounding  *)
(* is not modelled; every comparison and arithmetic step of the source is  *)
(* kept.                                                                   *)
(***************************************************************************)
EXTENDS Integers, Sequences, FiniteSets, TLC

VARIABLES
    files,      \* path -> NoFile or the text of the shard file
    dirs,       \* the directories that exist
    anchor,     \* find_best_match: prev_target_time
    feed,       \* find_best_match: what hketa.getEtas returns for seq i+1
    matched,    \* find_best_match: its outcome, or Pending before the call
    op,         \* the store call that returned last, with its arguments and result
    lastStored, \* history: path -> key -> the value its last write_file stored
    nwrites,    \* history: the number of write_file calls so far
    file_lock,  \* the worker inside "with file_lock", or 0
    wpc,        \* worker -> where it is in run_repeatedly / run
    wloc,       \* worker -> the locals of its run() and of the call it is in
    mainpc,     \* where the main thread is in main()
    nsamples,   \* history: the resolver calls that were given a usable feed so far
    seqFiles,   \* history: the files had every write_file run alone, in lock order
    tornRead,   \* history: a read_file loaded a file another call had truncated
    previous_gmb_query, \* the module global of line 20
    clock,      \* what round(datetime.now(...).timestamp()) returns now
    gpc,        \* where the selection loop of run() is (lines 266-269)
    groute,     \* run(): the route picked last
    ginfo,      \* run(): info[0]
    glast,      \* the roll_chance call that returned last, with what it returned
    glog,       \* the acceptance probability printed last, as printed
    grejects,   \* history: the routes rejected so far in this selection loop
    rlast,      \* the iteration of run() that ended last: what it did
    rhist,      \* history: shard -> stop pair -> the samples written to it, in order
    nruns,      \* history: the iterations of run() so far
    qpc,        \* worker -> where it is in lines 255-260 of roll_chance
    qnow,       \* worker -> its local now
    qpassed     \* history: the now of every call that was not forced to chance 0

vars == <<files, dirs, anchor, feed, matched, op, lastStored, nwrites,
          file_lock, wpc, wloc, mainpc, nsamples, seqFiles, tornRead,
          previous_gmb_query, clock, gpc, groute, ginfo, glast, glog, grejects,
          rlast, rhist, nruns, qpc, qnow, qpassed>>
matchVars == <<anchor, feed, matched>>
storeVars == <<op, lastStored, nwrites>>
poolVars == <<file_lock, wpc, wloc, mainpc, nsamples, seqFiles, tornRead>>
govVars == <<previous_gmb_query, clock, gpc, groute, ginfo, glast, glog, grejects>>
runVars == <<rlast, rhist, nruns>>
gateVars == <<qpc, qnow, qpassed>>

---------------------------------------------------------------------------
(* Bounds of the model.                                                    *)

\* The longest ETA feed find_best_match is given.
MaxEtas == 2

\* The number of write_file calls of a run of the store.
MaxWrites == 2

\* The workers of the pool (main starts num_threads = 4 of them).
NumWorkers == 2

\* The resolver calls that are given a usable feed in a run of the pool.
MaxSamples == 2

\* The seconds the wall clock advances in a run of the governor.
MaxTicks == 6

\* The routes one selection loop rejects before it accepts one.
MaxRejects == 2

\* The iterations of run() followed one after the other.
MaxRuns == 2

\* The calls of roll_chance that pass the throttle gate in a run.
MaxPasses == 3

---------------------------------------------------------------------------
(* Float arithmetic as exact rationals.                                    *)

Abs(i) == IF i < 0 THEN -i ELSE i

RECURSIVE GCD(_, _)
GCD(a, b) == IF b = 0 THEN a ELSE GCD(b, a % b)

\* The rational n/d in lowest terms with a positive denominator.
Rat(n, d) ==
    LET s == IF d < 0 THEN -1 ELSE 1
        g == GCD(Abs(n), Abs(d))
    IN  <<(s * n) \div g, (s * d) \div g>>

Num(i) == <<i, 1>>

RLt(x, y) == x[1] * y[2] < y[1] * x[2]
RLe(x, y) == x[1] * y[2] <= y[1] * x[2]
RAdd(x, y) == Rat(x[1] * y[2] + y[1] * x[2], x[2] * y[2])
RSub(x, y) == Rat(x[1] * y[2] - y[1] * x[2], x[2] * y[2])
RMul(x, y) == Rat(x[1] * y[1], x[2] * y[2])
RDiv(x, y) == Rat(x[1] * y[2], x[2] * y[1])

\* Python's max(a, b) and min(a, b): the first argument wins a tie.
PyMax(a, b) == IF RLt(a, b) THEN b ELSE a
PyMin(a, b) == IF RLt(b, a) THEN b ELSE a

\* Python's None where a number or a datetime may stand instead.
None == <<>>

---------------------------------------------------------------------------
(* Program constants.                                                      *)

MIN_SEGMENT_SECONDS == 5
MAX_SEGMENT_SECONDS == 3600

---------------------------------------------------------------------------
(* The window of find_best_match.                                          *)

\* A variant that looks at the first-bus value alone when both exist.
min_diff_cal_first(first, last, default) ==
    IF first = None /\ last = None THEN default
    ELSE IF first = None THEN PyMax(default, RMul(last, Rat(3, 4)))
    ELSE PyMax(default, RMul(first, Rat(3, 4)))

min_diff_cal(first, last, default) ==
    IF first = None /\ last = None THEN default
    ELSE IF first # None /\ last # None
         THEN PyMax(default, RMul(PyMin(first, last), Rat(3, 4)))
    ELSE IF first = None
         THEN PyMax(default, RMul(last, Rat(3, 4)))
    ELSE PyMax(default, RMul(first, Rat(3, 4)))

max_diff_cal(first, last, default) ==
    IF first = None /\ last = None THEN default
    ELSE IF first # None /\ last # None
         THEN PyMin(default, RMul(PyMax(first, last), Rat(5, 4)))
    ELSE IF first = None
         THEN PyMin(default, RMul(last, Rat(5, 4)))
    ELSE PyMin(default, RMul(first, Rat(5, 4)))

---------------------------------------------------------------------------
(* Timestamps.  An ETA string is modelled by what strptime reads from it:  *)
(* pat is the pattern it matches ("frac": %Y-%m-%dT%H:%M:%S.%f%z, "whole": *)
(* %Y-%m-%dT%H:%M:%S%z, "other": neither), sec the wall-clock second of    *)
(* the day, micro the microseconds, off the UTC offset in seconds and z    *)
(* whether the string ends with a literal Z instead of an offset.          *)

\* The UTC offset parse_datetime reads: a trailing Z is rewritten to +0000.
UtcOffset(s) == IF s.z THEN 0 ELSE s.off

\* Whether one of the two formats matches (else ValueError is raised).
ParseOk(s) == s.pat \in {"frac", "whole"}

\* The aware datetime: its instant (seconds, UTC) and its tzinfo.
parse_datetime(s) ==
    [inst |-> RAdd(Num(s.sec - UtcOffset(s)), Rat(s.micro, 1000000)),
     tz   |-> UtcOffset(s)]

\* (a - b).total_seconds() of two aware datetimes.
total_seconds(a, b) == RSub(a.inst, b.inst)

\* 'eta' not in eta or eta['eta'] is None
NoEta(e) == ~e.haskey \/ e.eta = None

---------------------------------------------------------------------------
(* The file system and the JSON text of a shard.                           *)
(*                                                                         *)
(* A path is the sequence of its components; the last one stands for       *)
(* "<prefix>.json".  A file is [exists, text]; the text is a sequence of   *)
(* tokens: an opening brace, one entry per (stop_id1, stop_id2, value),    *)
(* a closing brace.  A text that json.dump has not finished lacks the      *)
(* closing brace.  A document is the nested dict: a function from first    *)
(* stop ids to functions from second stop ids to numbers.                  *)

NoFile == [exists |-> FALSE, text |-> <<>>]
FileOf(text) == [exists |-> TRUE, text |-> text]

Dirname(path) == SubSeq(path, 1, Len(path) - 1)

\* os.makedirs creates the directory and every missing ancestor.
ensure_directory(ds, dir_name) ==
    IF dir_name \notin ds
    THEN ds \cup {SubSeq(dir_name, 1, k) : k \in 1..Len(dir_name)}
    ELSE ds

Entries(doc) ==
    UNION {{[t |-> "entry", a |-> a, b |-> b, v |-> doc[a][b]] :
                b \in DOMAIN doc[a]} : a \in DOMAIN doc}

\* The elements of S in the order json.dump emits them (an order of the
\* keys; json.load does not depend on it).
SeqOf(S) ==
    CHOOSE s \in [1..Cardinality(S) -> S] : \A e \in S : \E i \in DOMAIN s : s[i] = e

json_dump(doc) ==
    <<[t |-> "open"]>> \o SeqOf(Entries(doc)) \o <<[t |-> "close"]>>

\* Whether json.load accepts the text (else JSONDecodeError is raised).
Decodable(text) ==
    /\ Len(text) >= 2
    /\ text[1].t = "open"
    /\ text[Len(text)].t = "close"
    /\ \A i \in 2..(Len(text) - 1) : text[i].t = "entry"

json_load(text) ==
    LET es == {text[i] : i \in 2..(Len(text) - 1)}
    IN  [a \in {e.a : e \in es} |->
            [b \in {e.b : e \in {x \in es : x.a = a}} |->
                (CHOOSE e \in es : e.a = a /\ e.b = b).v]]

\* The dict literal {stop_id1: {stop_id2: diff}}.
Single(a, b, v) == [x \in {a} |-> [y \in {b} |-> v]]

\* data[a][b] = v on a nested dict (data[a] created when missing).
Put(doc, a, b, v) ==
    [x \in DOMAIN doc \cup {a} |->
        IF x = a
        THEN [y \in (IF a \in DOMAIN doc THEN DOMAIN doc[a] ELSE {}) \cup {b} |->
                 IF y = b THEN v ELSE doc[a][y]]
        ELSE doc[x]]

\* read_file: the value it returns and the directories afterwards.
read_file(fs, ds, file_path, stop_id1, stop_id2) ==
    LET dir_name == Dirname(file_path)
        ds2 == ensure_directory(ds, dir_name)
        f == fs[file_path]
    IN  [dirs |-> ds2,
         value |->
            IF dir_name \notin ds2 THEN None
            ELSE IF ~f.exists THEN None              \* FileNotFoundError
            ELSE IF ~Decodable(f.text) THEN None     \* JSONDecodeError
            ELSE LET data == json_load(f.text)
                 IN  IF stop_id1 \in DOMAIN data
                     THEN IF stop_id2 \in DOMAIN data[stop_id1]
                          THEN data[stop_id1][stop_id2]
                          ELSE None
                     ELSE None]

\* A variant that never replaces a negative prior value.
OverrideNoSentinel(time, diff, distance) ==
    RLt(Rat(3, 2), distance) /\ RLt(time, PyMin(Num(2), diff))

\* time < 0 or (distance > 1.5 and time < min(2.0, diff))
Override(time, diff, distance) ==
    RLt(time, Num(0)) \/ (RLt(Rat(3, 2), distance) /\ RLt(time, PyMin(Num(2), diff)))

\* A variant that weighs the new sample as much as the history.
BlendEven(time, diff) == RDiv(RAdd(time, diff), Num(2))

\* (time * 9 + diff) / 10
Blend(time, diff) == RDiv(RAdd(RMul(time, Num(9)), diff), Num(10))

\* A variant that forgets the other keys of the loaded document.
MergeAlone(data, stop_id1, stop_id2, v) == Single(stop_id1, stop_id2, v)

\* The document after times[stop_id2] = v / data[stop_id1] = {stop_id2: v}.
Merge(data, stop_id1, stop_id2, v) == Put(data, stop_id1, stop_id2, v)

\* A variant that starts from an empty document.
FreshEmpty(stop_id1, stop_id2, diff) == [data |-> <<>>, diff |-> diff]

\* Line 214: data = {stop_id1: {stop_id2: diff}}, kept when the shard cannot
\* be loaded.
Fresh(stop_id1, stop_id2, diff) ==
    [data |-> Single(stop_id1, stop_id2, diff), diff |-> diff]

\* Lines 214-236 of write_file: the document it will dump, and the value
\* it holds for (stop_id1, stop_id2) (the local diff when the function ends).
LoadAndMerge(fs, file_path, stop_id1, stop_id2, diff, distance) ==
    LET f == fs[file_path]
        fresh == Fresh(stop_id1, stop_id2, diff)
    IN  IF ~f.exists THEN fresh                  \* FileNotFoundError
        ELSE IF ~Decodable(f.text) THEN fresh    \* JSONDecodeError
        ELSE LET data == json_load(f.text) IN
             IF stop_id1 \in DOMAIN data /\ stop_id2 \in DOMAIN data[stop_id1]
             THEN LET time == data[stop_id1][stop_id2]
                      d2 == IF Override(time, diff, distance)
                            THEN diff
                            ELSE Blend(time, diff)
                  IN  [data |-> Merge(data, stop_id1, stop_id2, d2), diff |-> d2]
             ELSE [data |-> Merge(data, stop_id1, stop_id2, diff), diff |-> diff]

\* write_file run alone: the files and directories afterwards, and the
\* value stored.
write_file(fs, ds, file_path, stop_id1, stop_id2, diff, distance) ==
    LET r == LoadAndMerge(fs, file_path, stop_id1, stop_id2, diff, distance)
    IN  [files |-> [fs EXCEPT ![file_path] = FileOf(json_dump(r.data))],
         dirs |-> ensure_directory(ds, Dirname(file_path)),
         diff |-> r.diff]

---------------------------------------------------------------------------
(* find_best_match.                                                        *)

Inf == <<1, 0>>     \* float('inf'): above every number under RLt

\* A variant that drops the lower bound of the window.
InWindowNoLower(segment_seconds, min_diff, max_diff) ==
    RLe(segment_seconds, max_diff)

\* min_diff <= segment_seconds <= max_diff
InWindow(segment_seconds, min_diff, max_diff) ==
    RLe(min_diff, segment_seconds) /\ RLe(segment_seconds, max_diff)

\* A variant that lets a later entry of the same difference win.
CloserOrEqual(segment_seconds, smallest_diff) == RLe(segment_seconds, smallest_diff)

\* segment_seconds < smallest_diff
Closer(segment_seconds, smallest_diff) == RLt(segment_seconds, smallest_diff)

\* The loop over etas_next from entry i on, with the best match so far.
RECURSIVE ScanEtas(_, _, _, _, _, _, _)
ScanEtas(etas_next, i, prev_target_time, min_diff, max_diff, best, smallest) ==
    IF i > Len(etas_next)
    THEN IF best # None
         THEN [kind |-> "match", time |-> best, diff |-> smallest]
         ELSE [kind |-> "none"]
    ELSE LET eta == etas_next[i] IN
         IF NoEta(eta)
         THEN ScanEtas(etas_next, i + 1, prev_target_time, min_diff, max_diff, best, smallest)
         ELSE IF ~ParseOk(eta.eta)
         THEN [kind |-> "raise"]                      \* ValueError
         ELSE LET current_eta_time == parse_datetime(eta.eta)
                  segment_seconds == total_seconds(current_eta_time, prev_target_time)
              IN  IF RLt(current_eta_time.inst, prev_target_time.inst)
                  THEN ScanEtas(etas_next, i + 1, prev_target_time, min_diff, max_diff,
                                best, smallest)
                  ELSE IF InWindow(segment_seconds, min_diff, max_diff)
                          /\ Closer(segment_seconds, smallest)
                  THEN ScanEtas(etas_next, i + 1, prev_target_time, min_diff, max_diff,
                                current_eta_time, segment_seconds)
                  ELSE ScanEtas(etas_next, i + 1, prev_target_time, min_diff, max_diff,
                                best, smallest)

FirstBusPath(prefix) == <<"first_bus_times", prefix>>
LastBusPath(prefix) == <<"last_bus_times", prefix>>

\* What hketa.getEtas returns: None, or a list of entries.
NoEtas == [isnone |-> TRUE, list |-> <<>>]
EtaList(l) == [isnone |-> FALSE, list |-> l]

\* not etas_next
Falsy(etas) == etas.isnone \/ Len(etas.list) = 0

\* The outcome and the directories afterwards.
find_best_match(etas_next, fs, ds, prev_target_time, prefix, stop_id1, stop_id2) ==
    IF Falsy(etas_next)
    THEN [dirs |-> ds, out |-> [kind |-> "none"]]
    ELSE LET r1 == read_file(fs, ds, FirstBusPath(prefix), stop_id1, stop_id2)
             r2 == read_file(fs, r1.dirs, LastBusPath(prefix), stop_id1, stop_id2)
             first_bus_diff == r1.value
             last_bus_diff == r2.value
             min_diff == min_diff_cal(first_bus_diff, last_bus_diff, Num(MIN_SEGMENT_SECONDS))
             max_diff == max_diff_cal(first_bus_diff, last_bus_diff, Num(MAX_SEGMENT_SECONDS))
         IN  [dirs |-> r2.dirs,
              out |-> ScanEtas(etas_next.list, 1, prev_target_time, min_diff, max_diff, None, Inf)]

---------------------------------------------------------------------------
(* The resolver on its own: every feed of at most MaxEtas entries, every   *)
(* pair of first-bus and last-bus shard files.                             *)

\* A stop id is <<its first two characters, the rest>>.
Prefix(stop_id) == stop_id[1]

S1 == <<"ab", "1">>
S2 == <<"ab", "2">>
S3 == <<"ab", "3">>

RootDirs == {<<"times">>, <<"times_hourly">>, <<"first_bus_times">>, <<"last_bus_times">>}

Stamp(pat, sec, micro, off, z) ==
    [pat |-> pat, sec |-> sec, micro |-> micro, off |-> off, z |-> z]

HKT == 28800        \* +0800 in seconds
T0800 == 28800      \* 08:00:00 as the second of the day

\* The anchor 08:00:00+0800.
AnchorStamp == Stamp("whole", T0800, 0, HKT, FALSE)

\* The timestamps a feed entry may carry: 10 s after the anchor (+0800, and
\* the same instant written with a Z), 300 s after, 10 s before, 4.5 s
\* after, 3600 s and 3601 s after, and a string of neither format.
EtaStamps ==
    {Stamp("whole", T0800 + 10, 0, HKT, FALSE),
     Stamp("whole", 10, 0, 0, TRUE),
     Stamp("whole", T0800 + 300, 0, HKT, FALSE),
     Stamp("whole", T0800 - 10, 0, HKT, FALSE),
     Stamp("frac", T0800 + 4, 500000, HKT, FALSE),
     Stamp("whole", T0800 + 3600, 0, HKT, FALSE),
     Stamp("whole", T0800 + 3601, 0, HKT, FALSE),
     Stamp("other", 0, 0, 0, FALSE)}

EtaEntries ==
    {[haskey |-> FALSE, eta |-> None], [haskey |-> TRUE, eta |-> None]}
        \cup {[haskey |-> TRUE, eta |-> s] : s \in EtaStamps}

Feeds == {NoEtas} \cup {EtaList(l) : l \in UNION {[1..n -> EtaEntries] : n \in 0..MaxEtas}}

\* What a first-bus or last-bus shard may hold for (S1, S2).
HistoryFiles ==
    {NoFile, FileOf(json_dump(Single(S1, S3, Num(8))))}
        \cup {FileOf(json_dump(Single(S1, S2, v))) :
                    v \in {Num(-1), Num(8), Num(400), Num(4000)}}

MatchPaths == {FirstBusPath(Prefix(S1)), LastBusPath(Prefix(S1))}

Pending == [kind |-> "pending"]

\* No store call has returned yet in this process.
NoCall == [op |-> "none"]

\* No route and no roll_chance call yet.
NoRoute == [route |-> <<>>, co |-> {}]
NoRoll == [kind |-> "none"]

\* The selection loop is not running.
GovIdle ==
    /\ previous_gmb_query = 0
    /\ clock = 0
    /\ gpc = "idle"
    /\ groute = NoRoute
    /\ ginfo = None
    /\ glast = NoRoll
    /\ glog = None
    /\ grejects = 0

\* No iteration of run() is followed on its own.
NoRun == [outcome |-> "none"]

RunIdle ==
    /\ rlast = NoRun
    /\ rhist = <<>>
    /\ nruns = 0

\* No worker is in roll_chance.
GateIdle ==
    /\ qpc = <<>>
    /\ qnow = <<>>
    /\ qpassed = <<>>

\* The pool is not running (the resolver or the store is exercised alone).
PoolIdle ==
    /\ file_lock = 0
    /\ wpc = <<>> /\ wloc = <<>>
    /\ mainpc = "idle"
    /\ nsamples = 0
    /\ seqFiles = <<>>
    /\ tornRead = FALSE

InitMatch ==
    /\ \E f1 \in HistoryFiles, f2 \in HistoryFiles :
          files = [p \in MatchPaths |-> IF p = FirstBusPath(Prefix(S1)) THEN f1 ELSE f2]
    /\ dirs = RootDirs
    /\ anchor = parse_datetime(AnchorStamp)
    /\ feed \in Feeds
    /\ matched = Pending
    /\ op = NoCall /\ lastStored = <<>> /\ nwrites = 0
    /\ PoolIdle
    /\ GovIdle
    /\ RunIdle
    /\ GateIdle

\* One call find_best_match(hketa, key, stop_index, anchor_time, prefix, S1, S2).
Resolve ==
    /\ matched = Pending
    /\ LET r == find_best_match(feed, files, dirs, anchor, Prefix(S1), S1, S2)
       IN  /\ matched' = r.out
           /\ dirs' = r.dirs
    /\ UNCHANGED <<files, anchor, feed, storeVars, poolVars, govVars, runVars, gateVars>>

NextMatch == Resolve

SpecMatch == InitMatch /\ [][NextMatch]_vars

---------------------------------------------------------------------------
(* Claims about the resolver (checked under SpecMatch).                    *)

\* The historical values and the window of the call in the current state.
HistFirst == read_file(files, dirs, FirstBusPath(Prefix(S1)), S1, S2).value
HistLast == read_file(files, dirs, LastBusPath(Prefix(S1)), S1, S2).value
WindowLo == min_diff_cal(HistFirst, HistLast, Num(MIN_SEGMENT_SECONDS))
WindowHi == max_diff_cal(HistFirst, HistLast, Num(MAX_SEGMENT_SECONDS))

\* C1: whenever find_best_match returns a match, the returned instant is not
\* earlier than the anchor, segmentSeconds is (instant - anchor), and it lies
\* inside [minDiff, maxDiff] of that call.
C1_MatchInsideWindow ==
    matched.kind = "match" =>
        /\ ~RLt(matched.time.inst, anchor.inst)
        /\ matched.diff = RSub(matched.time.inst, anchor.inst)
        /\ RLe(WindowLo, matched.diff)
        /\ RLe(matched.diff, WindowHi)

\* A match was returned under a window narrowed by a first-bus history,
\* from a feed of which another entry was not returned.
C1_Witness ==
    /\ matched.kind = "match"
    /\ HistFirst # None
    /\ Len(feed.list) >= 2

\* The entries find_best_match keeps: non-null, not before the anchor,
\* inside the window.
SegOf(i) == RSub(parse_datetime(feed.list[i].eta).inst, anchor.inst)
KeptEntries ==
    {i \in 1..Len(feed.list) :
        /\ feed.list[i].haskey
        /\ feed.list[i].eta # None
        /\ ~RLt(SegOf(i), Num(0))
        /\ RLe(WindowLo, SegOf(i))
        /\ RLe(SegOf(i), WindowHi)}
AllParse ==
    \A i \in 1..Len(feed.list) :
        (feed.list[i].haskey /\ feed.list[i].eta # None) => ParseOk(feed.list[i].eta)

\* C2: when every timestamp parses, find_best_match returns the kept entry
\* of the smallest segmentSeconds, the first in feed order among equals, and
\* returns no match only when no entry is kept.
C2_SmallestFirstInFeed ==
    (matched # Pending /\ AllParse) =>
        IF KeptEntries = {}
        THEN matched.kind = "none"
        ELSE /\ matched.kind = "match"
             /\ \E i \in KeptEntries :
                    /\ \A j \in KeptEntries : RLe(SegOf(i), SegOf(j))
                    /\ \A j \in KeptEntries : SegOf(j) = SegOf(i) => i <= j
                    /\ matched.time = parse_datetime(feed.list[i].eta)
                    /\ matched.diff = SegOf(i)

\* The scenario of the specification: anchor 08:00:00+0800, ETAs 08:00:10 and
\* 08:05:00, window [5, 3600]: 08:00:10 is returned with segmentSeconds 10.
C2_Witness ==
    /\ feed = EtaList(<<[haskey |-> TRUE, eta |-> Stamp("whole", T0800 + 10, 0, HKT, FALSE)],
                        [haskey |-> TRUE, eta |-> Stamp("whole", T0800 + 300, 0, HKT, FALSE)]>>)
    /\ WindowLo = Num(5) /\ WindowHi = Num(3600)
    /\ KeptEntries = {1, 2}
    /\ matched = [kind |-> "match",
                  time |-> parse_datetime(Stamp("whole", T0800 + 10, 0, HKT, FALSE)),
                  diff |-> Num(10)]

---------------------------------------------------------------------------
(* The estimate store on its own: write_file and read_file called one at a *)
(* time on two shards, and the process restarted in between.               *)

HourlyPath(weekday, hour, prefix) == <<"times_hourly", weekday, hour, prefix>>
TimesPath(prefix) == <<"times", prefix>>

StorePaths == {TimesPath(Prefix(S1)), HourlyPath("3", "08", Prefix(S1))}
StoreKeys == {<<S1, S2>>, <<S1, S3>>, <<S3, S2>>}

\* The samples given to write_file (-1 is the sentinel) and the distances.
Samples == {Num(-1), Num(1), Num(30), Num(90)}
Distances == {Rat(3, 10), Rat(3, 2), Num(2)}

\* The text of a dump that was cut short after its first entry.
TornText == <<[t |-> "open"], [t |-> "entry", a |-> S1, b |-> S2, v |-> Num(90)]>>

\* How open and json.load find a shard file.
FileState(f) ==
    IF ~f.exists THEN "absent"
    ELSE IF ~Decodable(f.text) THEN "undecodable"
    ELSE "document"

\* A shard is absent, or was left empty or half written by a write that
\* was cut short.
InitStore ==
    /\ files \in [StorePaths -> {NoFile, FileOf(<<>>), FileOf(TornText)}]
    /\ dirs = RootDirs
    /\ op = NoCall
    /\ lastStored = [p \in StorePaths |-> [k \in StoreKeys |-> None]]
    /\ nwrites = 0
    /\ anchor = None /\ feed = NoEtas /\ matched = Pending
    /\ PoolIdle
    /\ GovIdle
    /\ RunIdle
    /\ GateIdle

StoreWrite ==
    /\ nwrites < MaxWrites
    /\ \E p \in StorePaths, k \in StoreKeys, diff \in Samples, distance \in Distances :
          LET r == write_file(files, dirs, p, k[1], k[2], diff, distance)
          IN  /\ files' = r.files
              /\ dirs' = r.dirs
              /\ op' = [op |-> "write", path |-> p, key |-> k, new |-> diff,
                        distance |-> distance, prev |-> lastStored[p][k],
                        found |-> FileState(files[p])]
              /\ lastStored' = [lastStored EXCEPT ![p][k] = r.diff]
    /\ nwrites' = nwrites + 1
    /\ UNCHANGED <<matchVars, poolVars, govVars, runVars, gateVars>>

StoreRead ==
    /\ \E p \in StorePaths, k \in StoreKeys :
          LET r == read_file(files, dirs, p, k[1], k[2])
          IN  /\ dirs' = r.dirs
              /\ op' = [op |-> "read", path |-> p, key |-> k, value |-> r.value,
                        restarted |-> (op.op = "restart")]
    /\ UNCHANGED <<files, lastStored, nwrites, matchVars, poolVars, govVars, runVars, gateVars>>

\* The process ends and a new one starts: what it held in memory is gone,
\* the files stay.
Restart ==
    /\ op.op # "restart"
    /\ op' = [op |-> "restart"]
    /\ UNCHANGED <<files, dirs, lastStored, nwrites, matchVars, poolVars, govVars,
                   runVars, gateVars>>

NextStore == StoreWrite \/ StoreRead \/ Restart

SpecStore == InitStore /\ [][NextStore]_vars

---------------------------------------------------------------------------
(* Claims about the estimate store (checked under SpecStore).              *)

\* The value a shard file holds for a key now, or None.
StoredNow(p, k) == read_file(files, dirs, p, k[1], k[2]).value

\* C3: a write_file with distance <= 1.5 over a prior value that is not
\* negative stores (prev*9 + new)/10, and stores exactly new when no value
\* existed for the key.
C3_BlendWithinShortDistance ==
    (/\ op.op = "write"
     /\ RLe(op.distance, Rat(3, 2))
     /\ (op.prev = None \/ ~RLt(op.prev, Num(0))))
    => IF op.prev = None
       THEN StoredNow(op.path, op.key) = op.new
       ELSE RMul(Num(10), StoredNow(op.path, op.key))
                = RAdd(RMul(Num(9), op.prev), op.new)

\* The scenario of the specification: prior 90, distance 0.3, sample 30
\* stores 84.
C3_Witness ==
    /\ op.op = "write"
    /\ op.prev = Num(90) /\ op.new = Num(30) /\ op.distance = Rat(3, 10)
    /\ StoredNow(op.path, op.key) = Num(84)

\* C4: over a prior value prev, write_file stores the new sample unmodified
\* when prev < 0, or distance > 1.5 and prev < min(2, new), and the blend
\* (prev*9 + new)/10 in every other case; so a stored -1 is replaced by the
\* next sample whatever the sample and the distance.
C4_OverrideOrBlend ==
    (op.op = "write" /\ op.prev # None)
    => IF \/ RLt(op.prev, Num(0))
          \/ /\ RLt(Rat(3, 2), op.distance)
             /\ RLt(op.prev, Num(2))
             /\ RLt(op.prev, op.new)
       THEN StoredNow(op.path, op.key) = op.new
       ELSE RMul(Num(10), StoredNow(op.path, op.key))
                = RAdd(RMul(Num(9), op.prev), op.new)

\* A stored sentinel -1 was replaced by the sample 90 at distance 0.3.
C4_Witness ==
    /\ op.op = "write"
    /\ op.prev = Num(-1) /\ op.new = Num(90) /\ op.distance = Rat(3, 10)
    /\ StoredNow(op.path, op.key) = Num(90)

\* C5: read_file returns, for every key of every shard, the value the last
\* write_file for that key stored, and None for a key never written; so does
\* the read_file call that returned last, also as the first call of a
\* restarted process.
C5_ReadReturnsLastWrite ==
    /\ \A p \in StorePaths, k \in StoreKeys :
          StoredNow(p, k) = lastStored[p][k]
    /\ op.op = "read" => op.value = lastStored[op.path][op.key]

\* After two writes and a restart, the first call of the new process read
\* the blended value 84.
C5_Witness ==
    /\ op.op = "read" /\ op.restarted
    /\ nwrites = 2
    /\ op.value = Num(84)

---------------------------------------------------------------------------
(* The first-bus and last-bus matchers.                                    *)

\* etas and len(etas) > 0 and 'eta' in etas[0] and etas[0]['eta'] is not None
HeadHasEta(etas) == ~Falsy(etas) /\ ~NoEta(etas.list[1])

\* len(etas) > 1 and 'eta' in etas[1] and etas[1]['eta'] is not None
SecondHasEta(etas) == Len(etas.list) > 1 /\ ~NoEta(etas.list[2])

find_first_bus_best_match(etas_next, etas_one_after, prev_target_time) ==
    IF ~HeadHasEta(etas_next) \/ SecondHasEta(etas_next) THEN [kind |-> "none"]
    ELSE IF HeadHasEta(etas_one_after) THEN [kind |-> "none"]
    ELSE LET eta == etas_next.list[1] IN
         IF ~ParseOk(eta.eta) THEN [kind |-> "raise"]
         ELSE LET current_eta_time == parse_datetime(eta.eta)
                  segment_seconds == total_seconds(current_eta_time, prev_target_time)
              IN  IF RLt(current_eta_time.inst, prev_target_time.inst)
                  THEN [kind |-> "none"]
                  ELSE IF InWindow(segment_seconds, Num(MIN_SEGMENT_SECONDS),
                                   Num(MAX_SEGMENT_SECONDS))
                  THEN [kind |-> "match", time |-> current_eta_time,
                        diff |-> segment_seconds]
                  ELSE [kind |-> "none"]

find_last_bus_best_match(etas_this, etas_next, etas_previous, prev_target_time) ==
    IF ~HeadHasEta(etas_this) \/ SecondHasEta(etas_this) THEN [kind |-> "none"]
    ELSE IF Falsy(etas_next) THEN [kind |-> "none"]
    ELSE IF HeadHasEta(etas_previous) THEN [kind |-> "none"]
    ELSE ScanEtas(etas_next.list, 1, prev_target_time, Num(MIN_SEGMENT_SECONDS),
                  Num(MAX_SEGMENT_SECONDS), None, Inf)

---------------------------------------------------------------------------
(* The worker pool: main() starts the workers, each runs run_repeatedly.   *)
(* A worker's step is a stretch of run() between two accesses to what the  *)
(* workers share (the lock and the files).  What hketa returns is drawn    *)
(* from PoolFeeds at every call.  A KeyboardInterrupt is raised in the     *)
(* main thread only (CPython runs signal handlers there), so the           *)
(* "except KeyboardInterrupt: break" of run_repeatedly has no step here.   *)

Workers == 1..NumWorkers

EtaAt(sec) == [haskey |-> TRUE, eta |-> Stamp("whole", T0800 + sec, 0, HKT, FALSE)]
EtaBad == [haskey |-> TRUE, eta |-> Stamp("other", 0, 0, 0, FALSE)]

\* What hketa.getEtas may return in the pool.
PoolFeeds ==
    {NoEtas, EtaList(<<EtaAt(10)>>), EtaList(<<EtaAt(300)>>),
     EtaList(<<EtaAt(10), EtaAt(300)>>), EtaList(<<EtaBad>>)}

\* What it may return for the anchor position.
AnchorFeeds == {NoEtas, EtaList(<<EtaAt(0)>>), EtaList(<<EtaBad>>)}

\* The stop pairs random.choice / random.randint may select.
PoolKeys == {<<S1, S2>>, <<S1, S3>>}

\* haversine of the two stops' locations, in km.
PoolDistance(key) == IF key = <<S1, S2>> THEN Rat(3, 10) ELSE Num(2)

\* route["co"] of the route a stop pair is taken from: the pair (S1, S3) is
\* on a light-rail route.
PoolCo(key) == IF key = <<S1, S2>> THEN {"kmb"} ELSE {"lightRail"}

\* A variant that applies the floor whatever the route.
FloorAlways(co, diff) == PyMax(Num(120), diff)

\* Lines 299-300, 321-322, 343-344: max(120.0, diff) for a light-rail route.
LightRailFloor(co, diff) == IF "lightRail" \in co THEN PyMax(Num(120), diff) ELSE diff

\* current_weekday() and current_hour() while the pool runs.
PoolWeekday == "3"
PoolHour == "08"

PoolPaths ==
    {FirstBusPath(Prefix(S1)), LastBusPath(Prefix(S1)), TimesPath(Prefix(S1)),
     HourlyPath(PoolWeekday, PoolHour, Prefix(S1))}

\* The shard a write of the given stage of run() goes to.
StagePath(stage, prefix) ==
    CASE stage = "first" -> FirstBusPath(prefix)
      [] stage = "last" -> LastBusPath(prefix)
      [] stage = "times" -> TimesPath(prefix)
      [] OTHER -> HourlyPath(PoolWeekday, PoolHour, prefix)

\* The locals of run() at the start of an iteration.
FreshLocals ==
    [key |-> <<S1, S2>>, anchor_time |-> None, stage |-> "none", diff |-> None,
     etas |-> NoEtas, first |-> None, last |-> None, data |-> <<>>, caught |-> "none"]

InitPool ==
    /\ files = [p \in PoolPaths |-> NoFile]
    /\ dirs = RootDirs
    /\ file_lock = 0
    /\ wpc = [w \in Workers |-> "start"]
    /\ wloc = [w \in Workers |-> FreshLocals]
    /\ mainpc = "wait"
    /\ nsamples = 0
    /\ seqFiles = [p \in PoolPaths |-> NoFile]
    /\ tornRead = FALSE
    /\ anchor = None /\ feed = NoEtas /\ matched = Pending
    /\ op = NoCall /\ lastStored = <<>> /\ nwrites = 0
    /\ GovIdle
    /\ RunIdle
    /\ GateIdle

Go(w, pc, loc) ==
    /\ wpc' = [wpc EXCEPT ![w] = pc]
    /\ wloc' = [wloc EXCEPT ![w] = loc]

\* An exception raised inside the try of run() (lines 285-358).
RaiseInRun(w, site) == Go(w, "except_run", [wloc[w] EXCEPT !.caught = site])

\* The iteration ends (run returns) and run_repeatedly calls run again.
NextIteration(w) == Go(w, "start", FreshLocals)

\* The pool's other variables, left alone by a step that only moves a worker.
poolRest == <<files, dirs, file_lock, mainpc, nsamples, seqFiles, tornRead,
              matchVars, storeVars, govVars, runVars, gateVars>>

\* Lines 266-269: roll_chance or the route lookup raises; the exception
\* leaves run() (the try starts at line 285).
GateRaises(w) ==
    /\ wpc[w] = "start"
    /\ Go(w, "except_loop", [FreshLocals EXCEPT !.caught = "gate"])
    /\ UNCHANGED poolRest

\* Lines 270-277: the route has no stops, or fewer than two: run returns.
NoStopPair(w) ==
    /\ wpc[w] = "start"
    /\ NextIteration(w)
    /\ UNCHANGED poolRest

\* Where lines 278-292 lead: the worker's next position and locals, and
\* whether a sample was produced.
StartOutcome(key, initial_etas, etas_next, etas_one_after) ==
    LET loc == [FreshLocals EXCEPT !.key = key] IN
    IF ~HeadHasEta(initial_etas)
    THEN [pc |-> "start", loc |-> FreshLocals, used |-> 0]          \* line 288
    ELSE IF ~ParseOk(initial_etas.list[1].eta)
    THEN [pc |-> "except_run", loc |-> [loc EXCEPT !.caught = "parse"], used |-> 0]
    ELSE LET anchor_time == parse_datetime(initial_etas.list[1].eta)
             r == find_first_bus_best_match(etas_next, etas_one_after, anchor_time)
             loc2 == [loc EXCEPT !.anchor_time = anchor_time]
         IN  IF r.kind = "raise"
             THEN [pc |-> "except_run", loc |-> [loc2 EXCEPT !.caught = "parse"],
                   used |-> 0]
             ELSE IF r.kind = "match"
             THEN [pc |-> "w_acq",
                   loc |-> [loc2 EXCEPT !.stage = "first",
                                        !.diff = LightRailFloor(PoolCo(key), r.diff)],
                   used |-> 1]
             ELSE [pc |-> "last", loc |-> loc2, used |-> 0]

\* The outcomes over every stop pair and every answer of hketa.
StartOutcomes ==
    {StartOutcome(key, initial_etas, etas_next, etas_one_after) :
        key \in PoolKeys, initial_etas \in AnchorFeeds,
        etas_next \in PoolFeeds, etas_one_after \in PoolFeeds}

\* Lines 278-292: a stop pair is selected, the anchor ETA is fetched and
\* parsed, and find_first_bus_best_match is called.
RunStart(w) ==
    /\ wpc[w] = "start"
    /\ \E out \in StartOutcomes :
          /\ nsamples + out.used <= MaxSamples
          /\ Go(w, out.pc, out.loc)
          /\ nsamples' = nsamples + out.used
    /\ UNCHANGED <<files, dirs, file_lock, mainpc, seqFiles, tornRead, matchVars,
                   storeVars, govVars, runVars, gateVars>>

\* The anchor times run() can hold.
PoolAnchors ==
    {parse_datetime(f.list[1].eta) :
        f \in {g \in AnchorFeeds : HeadHasEta(g) /\ ParseOk(g.list[1].eta)}}

\* What find_last_bus_best_match can return, over every answer of hketa.
LastBusResults ==
    [t \in PoolAnchors |->
        {find_last_bus_best_match(etas_this, etas_next, etas_previous, t) :
            etas_this \in PoolFeeds, etas_next \in PoolFeeds, etas_previous \in PoolFeeds}]

\* Where lines 314-315 lead.
LastOutcome(loc, r) ==
    IF r.kind = "raise"
    THEN [pc |-> "except_run", loc |-> [loc EXCEPT !.caught = "parse"], used |-> 0]
    ELSE IF r.kind = "match"
    THEN [pc |-> "w_acq",
          loc |-> [loc EXCEPT !.stage = "last",
                              !.diff = LightRailFloor(PoolCo(loc.key), r.diff)],
          used |-> 1]
    ELSE [pc |-> "best", loc |-> loc, used |-> 0]

\* Lines 314-315: find_last_bus_best_match is called.
RunLastBus(w) ==
    /\ wpc[w] = "last"
    /\ \E r \in LastBusResults[wloc[w].anchor_time] :
          LET out == LastOutcome(wloc[w], r)
          IN  /\ nsamples + out.used <= MaxSamples
              /\ Go(w, out.pc, out.loc)
              /\ nsamples' = nsamples + out.used
    /\ UNCHANGED <<files, dirs, file_lock, mainpc, seqFiles, tornRead, matchVars,
                   storeVars, govVars, runVars, gateVars>>

\* Lines 337, 121-123: find_best_match fetches the feed of position i+1 and
\* returns None, None when it is empty; run() then returns.
BestFetch(w) ==
    /\ wpc[w] = "best"
    /\ \E etas_next \in PoolFeeds :
          IF Falsy(etas_next)
          THEN NextIteration(w) /\ UNCHANGED nsamples
          ELSE /\ nsamples < MaxSamples
               /\ Go(w, "r_first", [wloc[w] EXCEPT !.etas = etas_next])
               /\ nsamples' = nsamples + 1
    /\ UNCHANGED <<files, dirs, file_lock, mainpc, seqFiles, tornRead, matchVars,
                   storeVars, govVars, runVars, gateVars>>

\* A variant of the guard that does not wait for the lock.
LockFreeIgnored(w) == TRUE

\* "with file_lock:" is entered only when no other thread is inside it.
LockFree(w) == file_lock = 0

\* Another worker has truncated the file and not yet dumped into it.
Truncating(w, path) ==
    \E v \in Workers \ {w} :
        wpc[v] = "w_dump" /\ StagePath(wloc[v].stage, Prefix(wloc[v].key[1])) = path

\* Line 125: read_file(first_bus_times/<prefix>.json) under the lock.
ReadFirst(w) ==
    /\ wpc[w] = "r_first"
    /\ LockFree(w)
    /\ LET path == FirstBusPath(Prefix(wloc[w].key[1]))
           r == read_file(files, dirs, path, wloc[w].key[1], wloc[w].key[2])
       IN  /\ dirs' = r.dirs
           /\ tornRead' = (tornRead \/ Truncating(w, path))
           /\ Go(w, "r_last", [wloc[w] EXCEPT !.first = r.value])
    /\ UNCHANGED <<files, file_lock, mainpc, nsamples, seqFiles, matchVars, storeVars,
                   govVars, runVars, gateVars>>

\* Line 126: read_file(last_bus_times/<prefix>.json) under the lock.
ReadLast(w) ==
    /\ wpc[w] = "r_last"
    /\ LockFree(w)
    /\ LET path == LastBusPath(Prefix(wloc[w].key[1]))
           r == read_file(files, dirs, path, wloc[w].key[1], wloc[w].key[2])
       IN  /\ dirs' = r.dirs
           /\ tornRead' = (tornRead \/ Truncating(w, path))
           /\ Go(w, "scan", [wloc[w] EXCEPT !.last = r.value])
    /\ UNCHANGED <<files, file_lock, mainpc, nsamples, seqFiles, matchVars, storeVars,
                   govVars, runVars, gateVars>>

\* Where lines 128-152 and 338 lead.
ScanOutcome(loc) ==
    LET min_diff == min_diff_cal(loc.first, loc.last, Num(MIN_SEGMENT_SECONDS))
        max_diff == max_diff_cal(loc.first, loc.last, Num(MAX_SEGMENT_SECONDS))
        r == ScanEtas(loc.etas.list, 1, loc.anchor_time, min_diff, max_diff, None, Inf)
    IN  IF r.kind = "raise"
        THEN [pc |-> "except_run", loc |-> [loc EXCEPT !.caught = "parse"]]
        ELSE IF r.kind = "match"
        THEN [pc |-> "w_acq",
              loc |-> [loc EXCEPT !.stage = "times",
                                  !.diff = LightRailFloor(PoolCo(loc.key), r.diff)]]
        ELSE [pc |-> "start", loc |-> FreshLocals]

\* Lines 128-152, 338-347: the window, the scan of the feed, and on a match
\* the distance of the two stops.
Scan(w) ==
    /\ wpc[w] = "scan"
    /\ LET out == ScanOutcome(wloc[w])
       IN  Go(w, out.pc, out.loc)
    /\ UNCHANGED poolRest

\* Lines 339-341: a stop is missing from hketa.stop_list (KeyError).
LookupRaises(w) ==
    /\ wpc[w] = "scan"
    /\ ScanOutcome(wloc[w]).pc = "w_acq"
    /\ RaiseInRun(w, "distance")
    /\ UNCHANGED poolRest

\* The arguments of the write_file call the worker is in.
CallPath(w) == StagePath(wloc[w].stage, Prefix(wloc[w].key[1]))

\* Lines 211-236: the lock is taken, the directory ensured, the shard
\* loaded and the sample merged into the document.
WriteAcquire(w) ==
    /\ wpc[w] = "w_acq"
    /\ LockFree(w)
    /\ LET loc == wloc[w]
           r == LoadAndMerge(files, CallPath(w), loc.key[1], loc.key[2], loc.diff,
                             PoolDistance(loc.key))
       IN  /\ file_lock' = w
           /\ dirs' = ensure_directory(dirs, Dirname(CallPath(w)))
           /\ Go(w, "w_trunc", [loc EXCEPT !.data = r.data])
           /\ seqFiles' = write_file(seqFiles, dirs, CallPath(w), loc.key[1], loc.key[2],
                                     loc.diff, PoolDistance(loc.key)).files
    /\ UNCHANGED <<files, mainpc, nsamples, tornRead, matchVars, storeVars, govVars, runVars, gateVars>>

\* Lines 211-213: the directory cannot be made or the file not opened
\* (OSError); the lock is released as the exception leaves the with.
WriteRaises(w) ==
    /\ wpc[w] = "w_acq"
    /\ LockFree(w)
    /\ RaiseInRun(w, "write")
    /\ UNCHANGED poolRest

\* Line 237: open(file_path, 'w') truncates the file.
WriteTruncate(w) ==
    /\ wpc[w] = "w_trunc"
    /\ files' = [files EXCEPT ![CallPath(w)] = FileOf(<<>>)]
    /\ Go(w, "w_dump", wloc[w])
    /\ UNCHANGED <<dirs, file_lock, mainpc, nsamples, seqFiles, tornRead, matchVars,
                   storeVars, govVars, runVars, gateVars>>

\* Where run() goes on after the write_file of a stage.
AfterWrite(loc) ==
    CASE loc.stage = "first" -> [pc |-> "last", loc |-> [loc EXCEPT !.stage = "none",
                                                          !.diff = None, !.data = <<>>]]
      [] loc.stage = "last" -> [pc |-> "best", loc |-> [loc EXCEPT !.stage = "none",
                                                         !.diff = None, !.data = <<>>]]
      [] loc.stage = "times" -> [pc |-> "w_acq", loc |-> [loc EXCEPT !.stage = "hourly",
                                                           !.data = <<>>]]
      [] OTHER -> [pc |-> "start", loc |-> FreshLocals]

\* Line 238: json.dump writes the document, the file is closed and the lock
\* released; run() goes on (lines 305-312, 327-334, 349, 351-358).
WriteDump(w) ==
    /\ wpc[w] = "w_dump"
    /\ files' = [files EXCEPT ![CallPath(w)] = FileOf(json_dump(wloc[w].data))]
    /\ file_lock' = 0
    /\ Go(w, AfterWrite(wloc[w]).pc, AfterWrite(wloc[w]).loc)
    /\ UNCHANGED <<dirs, mainpc, nsamples, seqFiles, tornRead, matchVars, storeVars,
                   govVars, runVars, gateVars>>

\* A variant in which the exception ends the worker.
CatchInRunMissing(w) ==
    /\ wpc[w] = "except_run"
    /\ Go(w, "dead", wloc[w])
    /\ UNCHANGED poolRest

\* Lines 359-360: the exception is printed; run() returns and
\* run_repeatedly calls it again.
CatchInRun(w) ==
    /\ wpc[w] = "except_run"
    /\ Go(w, "start", [FreshLocals EXCEPT !.caught = wloc[w].caught])
    /\ UNCHANGED poolRest

\* A variant in which the exception ends the worker.
CatchInLoopMissing(w) ==
    /\ wpc[w] = "except_loop"
    /\ Go(w, "dead", wloc[w])
    /\ UNCHANGED poolRest

\* Lines 369-371: the exception is printed and the loop continues.
CatchInLoop(w) ==
    /\ wpc[w] = "except_loop"
    /\ Go(w, "start", [FreshLocals EXCEPT !.caught = wloc[w].caught])
    /\ UNCHANGED poolRest

WorkerStep(w) ==
    \/ GateRaises(w) \/ NoStopPair(w) \/ RunStart(w) \/ RunLastBus(w)
    \/ BestFetch(w) \/ ReadFirst(w) \/ ReadLast(w) \/ Scan(w) \/ LookupRaises(w)
    \/ WriteAcquire(w) \/ WriteRaises(w) \/ WriteTruncate(w) \/ WriteDump(w)
    \/ CatchInRun(w) \/ CatchInLoop(w)

\* The user interrupts the process: KeyboardInterrupt is raised in the main
\* thread, in as_completed (caught at line 385) or in the executor's
\* shutdown(wait=True) at the end of the with (caught at line 394).
Interrupt ==
    /\ mainpc \in {"wait", "shutdown"}
    /\ mainpc' = IF mainpc = "wait" THEN "except" ELSE "exit_wait"
    /\ UNCHANGED <<files, dirs, file_lock, wpc, wloc, nsamples, seqFiles, tornRead,
                   matchVars, storeVars, govVars, runVars, gateVars>>

\* Lines 386-388: the notice is printed and every future cancelled, which
\* does nothing to a running future; the with then waits for the workers.
MainCancel ==
    /\ mainpc = "except"
    /\ mainpc' = "shutdown"
    /\ UNCHANGED <<files, dirs, file_lock, wpc, wloc, nsamples, seqFiles, tornRead,
                   matchVars, storeVars, govVars, runVars, gateVars>>

NextPool == (\E w \in Workers : WorkerStep(w)) \/ Interrupt \/ MainCancel

SpecPool == InitPool /\ [][NextPool]_vars

\* Every thread that can run does run.
SpecPoolFair ==
    /\ SpecPool
    /\ \A w \in Workers : WF_vars(WorkerStep(w))
    /\ WF_vars(MainCancel)

---------------------------------------------------------------------------
(* Claims about the pool (checked under SpecPool and SpecPoolFair).        *)

NoWriteInProgress == \A w \in Workers : wpc[w] \notin {"w_trunc", "w_dump"}

\* C6: concurrent write_file calls lose no update: whenever no write is in
\* progress, every shard holds what the same calls give when each runs
\* alone, one after the other, in the order they took the lock.
C6_NoLostUpdate == NoWriteInProgress => files = seqFiles

\* Two workers are in write_file for the same shard at once: one has
\* truncated the file, the other waits for the lock.
C6_Witness ==
    \E w \in Workers, v \in Workers :
        /\ w # v
        /\ wpc[w] = "w_dump" /\ wpc[v] = "w_acq"
        /\ CallPath(w) = CallPath(v)

\* C7: no read_file loads a shard between the truncation and the dump of a
\* write_file of another worker.
C7_NoTornRead == ~tornRead

\* A worker is about to read a shard that another worker has truncated and
\* not yet dumped into.
C7_Witness ==
    \E w \in Workers :
        /\ wpc[w] = "r_first"
        /\ Truncating(w, FirstBusPath(Prefix(wloc[w].key[1])))

\* The positions the source has for a worker that has left its loop (the
\* break of line 368) and for a main thread that has left main().
WorkersStopped == \A w \in Workers : wpc[w] = "stopped"
ProcessExited == mainpc = "exited"

\* C8: after an interrupt every worker's loop eventually stops and the
\* process exits.
C8_InterruptStopsPool == (mainpc # "wait") ~> (WorkersStopped /\ ProcessExited)

\* C9: an exception raised in an iteration never ends a worker: from either
\* handler the worker's next step starts the next iteration, and no step of
\* any thread ends a worker.
C9_ErrorsNeverEndWorker ==
    [][\A w \in Workers :
          /\ wpc'[w] \notin {"dead", "stopped"}
          /\ (wpc[w] \in {"except_run", "except_loop"} /\ wpc'[w] # wpc[w])
                => wpc'[w] = "start"]_vars

\* A worker starts its next iteration after its write_file raised, while
\* another worker is in the middle of a write.
C9_Witness ==
    \E w \in Workers, v \in Workers :
        /\ wpc[w] = "start" /\ wloc[w].caught = "write"
        /\ wpc[v] = "w_dump"

---------------------------------------------------------------------------
(* The sampling-rate governor: roll_chance (lines 245-262) and the         *)
(* selection loop of run() that calls it (lines 266-269).                  *)
(*                                                                         *)
(* A route number is the sequence of its characters; route["co"] is the    *)
(* set of the company tags in the list.  The clock is read in the whole    *)
(* seconds that round(datetime.now(...).timestamp()) returns.              *)

Digits == {"0", "1", "2", "3", "4", "5", "6", "7", "8", "9"}

\* char.isdigit() for the characters of a route number.
isdigit(char) == char \in Digits

\* any(char.isdigit() for char in route_number)
AnyDigit(route_number) ==
    \E i \in 1..Len(route_number) : isdigit(route_number[i])

startswith(str, char) == Len(str) > 0 /\ str[1] = char
endswith(str, char) == Len(str) > 0 /\ str[Len(str)] = char

\* The routes random.choice(routes) may return: day and night routes of
\* the franchised buses, minibus (gmb) routes with and without a digit, and
\* a rail line, whose display number has no digit.
Routes ==
    { [route |-> <<"1", "A">>, co |-> {"kmb"}],
      [route |-> <<"N", "8">>, co |-> {"ctb", "kmb"}],
      [route |-> <<"8", "S">>, co |-> {"gmb"}],
      [route |-> <<"6", "9">>, co |-> {"gmb"}],
      [route |-> <<"T", "M", "L">>, co |-> {"mtr"}],
      [route |-> <<"H", "K">>, co |-> {"gmb"}] }

\* What current_hour() returns: strftime('%H'), two decimal digits.  The
\* hours from "00" to "05" hold the night window [2, 5) and both of its
\* edges; "23" stands for the rest of the day.
HourStrings == {<<0, 0>>, <<0, 1>>, <<0, 2>>, <<0, 3>>, <<0, 4>>, <<0, 5>>, <<2, 3>>}

\* int() of a two-digit string.
PyInt(str) == 10 * str[1] + str[2]

\* The seconds two queries of the throttled class are kept apart (line 258).
GMB_QUERY_GAP == 5

\* The values random.uniform(0, 1) is drawn from.
Draws == {Rat(0, 1), Rat(1, 100), Rat(99, 100)}

\* Lines 251-254: the chance by the hour and the route number.
HourChance(hour, route_number) ==
    IF 2 <= hour /\ hour < 5
        /\ ~(startswith(route_number, "N") \/ endswith(route_number, "S"))
    THEN Rat(1, 100)
    ELSE Num(1)

\* Line 258 with <= for <.
TooSoonInclusive(now, previous) == now - previous <= GMB_QUERY_GAP

\* Line 258: the last query of the throttled class is too recent.
TooSoon(now, previous) == now - previous < GMB_QUERY_GAP

\* Line 262: the decision on the chance and the draw.
Decide(chance, draw) ==
    RLt(Num(0), chance) /\ (RLe(Num(1), chance) \/ RLe(chance, draw))

\* roll_chance(route, info), with the module global previous_gmb_query, the
\* clock reading and the draw it would make as further arguments.  The
\* result carries what it returns, info[0] and the global after the call.
\* A route number without a digit returns at line 250, before line 261
\* stores the chance in info[0].
roll_chance(route, info, previous, hour_str, now, draw) ==
    LET route_number == route.route
        hour == PyInt(hour_str)
        gmb == "gmb" \in route.co
        chance == IF gmb /\ TooSoon(now, previous)
                  THEN Num(0)
                  ELSE HourChance(hour, route_number)
    IN  IF ~AnyDigit(route_number)
        THEN [accept |-> TRUE, info |-> info, previous_gmb_query |-> previous]
        ELSE [accept |-> Decide(chance, draw),
              info |-> chance,
              previous_gmb_query |->
                  IF gmb /\ ~TooSoon(now, previous) THEN now ELSE previous]

\* f"{chance:.2f}": the whole part and the hundredths.
Format2f(x) ==
    LET q == (200 * x[1] + x[2]) \div (2 * x[2])
    IN  <<q \div 100, q % 100>>

\* The process starts with the global at 0 (line 20) and a wall clock far
\* from the epoch: the first query of the throttled class is never too soon.
ClockStart == GMB_QUERY_GAP

InitGov ==
    /\ previous_gmb_query = 0
    /\ clock = ClockStart
    /\ gpc = "choose"
    /\ groute = NoRoute
    /\ ginfo = None
    /\ glast = NoRoll
    /\ glog = None
    /\ grejects = 0
    /\ files = <<>> /\ dirs = RootDirs
    /\ anchor = None /\ feed = NoEtas /\ matched = Pending
    /\ op = NoCall /\ lastStored = <<>> /\ nwrites = 0
    /\ PoolIdle
    /\ RunIdle
    /\ GateIdle

govRest == <<files, dirs, matchVars, storeVars, poolVars, runVars, gateVars>>

\* Lines 266-267: key, route = random.choice(routes); info = [1].
Choose ==
    /\ gpc = "choose"
    /\ groute' \in Routes
    /\ ginfo' = Num(1)
    /\ gpc' = "roll"
    /\ grejects' = 0
    /\ UNCHANGED <<previous_gmb_query, clock, glast, glog, govRest>>

\* Line 268: one test of the while loop.
Roll ==
    /\ gpc = "roll"
    /\ \E hour_str \in HourStrings, draw \in Draws :
          LET r == roll_chance(groute, ginfo, previous_gmb_query, hour_str, clock, draw)
          IN  /\ previous_gmb_query' = r.previous_gmb_query
              /\ ginfo' = r.info
              /\ glast' = [kind |-> "roll", route |-> groute, hour |-> hour_str,
                           accept |-> r.accept, info |-> r.info]
              /\ IF r.accept
                 THEN gpc' = "accepted" /\ UNCHANGED grejects
                 ELSE /\ grejects < MaxRejects
                      /\ gpc' = "repick"
                      /\ grejects' = grejects + 1
    /\ UNCHANGED <<clock, groute, glog, govRest>>

\* Line 269: roll_chance returned False and another route is picked.
Repick ==
    /\ gpc = "repick"
    /\ groute' \in Routes
    /\ gpc' = "roll"
    /\ UNCHANGED <<previous_gmb_query, clock, ginfo, glast, glog, grejects, govRest>>

\* Lines 306, 328 and 352: a sample was written and the line printed for it
\* shows chance = info[0].
Log ==
    /\ gpc = "accepted"
    /\ glog' = Format2f(ginfo)
    /\ gpc' = "choose"
    /\ UNCHANGED <<previous_gmb_query, clock, groute, ginfo, glast, grejects, govRest>>

\* run() ends without a sample: nothing is printed.
NoSample ==
    /\ gpc = "accepted"
    /\ gpc' = "choose"
    /\ UNCHANGED <<previous_gmb_query, clock, groute, ginfo, glast, glog, grejects,
                   govRest>>

\* A second passes.
Tick ==
    /\ clock < ClockStart + MaxTicks
    /\ clock' = clock + 1
    /\ UNCHANGED <<previous_gmb_query, gpc, groute, ginfo, glast, glog, grejects,
                   govRest>>

NextGov == Choose \/ Roll \/ Repick \/ Log \/ NoSample \/ Tick

SpecGov == InitGov /\ [][NextGov]_vars

---------------------------------------------------------------------------
(* The governor's claims.                                                  *)

\* C10: for a route whose number has no digit, whatever the hour, the
\* company tags, previous_gmb_query and the routes rejected before it in the
\* selection loop, roll_chance accepts and the probability it hands back in
\* info[0], the one the worker prints, is exactly 1.
C10_NoDigitAcceptsWithChanceOne ==
    (glast.kind = "roll" /\ ~AnyDigit(glast.route.route))
        => (glast.accept /\ glast.info = Num(1))

\* The draws of random.uniform(0, 1) on an even grid of hundredths of
\* [0, 1), to count the share of the draws on which a chance is accepted.
DrawGrid == {Rat(k, 100) : k \in 0..99}

\* The draws of the grid on which line 262 accepts the chance.
AcceptedDraws(chance) == {draw \in DrawGrid : Decide(chance, draw)}

\* C11: at line 262 a chance of 0 is rejected on every draw, a chance of 1
\* or more is accepted on every draw, and a chance p between them is
\* accepted on exactly the share p of the uniform draws.
C11_AcceptsOnShareP ==
    (glast.kind = "roll" /\ AnyDigit(glast.route.route))
        => Cardinality(AcceptedDraws(glast.info)) * glast.info[2]
               = glast.info[1] * Cardinality(DrawGrid)

\* The call in progress belongs to the throttled class and has a digit.
ThrottledCall == AnyDigit(groute.route) /\ "gmb" \in groute.co

\* The call in progress returns the same had previous_gmb_query another
\* value, one that is too recent or one that is not.
SameWhateverTimestamp(hour_str) ==
    \A other \in {clock, clock - GMB_QUERY_GAP}, draw \in Draws :
        LET r == roll_chance(groute, ginfo, previous_gmb_query, hour_str, clock, draw)
            q == roll_chance(groute, ginfo, other, hour_str, clock, draw)
        IN  r.accept = q.accept /\ r.info = q.info /\ q.previous_gmb_query = other

\* C12: a call of roll_chance for a digit-bearing route of the throttled
\* class made fewer than 5 seconds after previous_gmb_query is rejected and
\* leaves previous_gmb_query alone; one made 5 seconds or more after it sets
\* previous_gmb_query to the current time; a call for any other route
\* neither depends on previous_gmb_query nor changes it.
C12_ThrottleGate ==
    [][(gpc = "roll" /\ gpc' # "roll") =>
          IF ThrottledCall
          THEN IF clock - previous_gmb_query < GMB_QUERY_GAP
               THEN /\ gpc' = "repick"
                    /\ ~glast'.accept
                    /\ previous_gmb_query' = previous_gmb_query
               ELSE previous_gmb_query' = clock
          ELSE /\ previous_gmb_query' = previous_gmb_query
               /\ SameWhateverTimestamp(glast'.hour)]_vars

\* A throttled-class route passed the gate at the start, another call for
\* the class was rejected within 5 seconds, and one made 5 seconds after
\* the first has passed and moved previous_gmb_query.
C12_Witness ==
    /\ glast.kind = "roll"
    /\ AnyDigit(glast.route.route) /\ "gmb" \in glast.route.co
    /\ glast.info # Num(0)
    /\ previous_gmb_query = clock
    /\ clock = ClockStart + GMB_QUERY_GAP
    /\ glog = Format2f(Num(0))

---------------------------------------------------------------------------
(* One worker on its own: run() from line 270 to its end, one iteration    *)
(* after the other.  The store works (no OSError) and every stop of a      *)
(* route is in hketa.stop_list (no KeyError); what hketa.getEtas returns   *)
(* is drawn anew at every call.                                            *)

\* What hketa.getEtas may return for the positions after the anchor.
RunFeeds ==
    {NoEtas, EtaList(<<EtaAt(45)>>), EtaList(<<EtaAt(300)>>),
     EtaList(<<EtaAt(45), EtaAt(300)>>), EtaList(<<EtaBad>>)}

\* route["co"] of the route picked.
RunCos == {{"kmb"}, {"lightRail"}}

\* current_hour() over the iterations; current_weekday() stays PoolWeekday.
RunHours == {"08", "09"}

RunPaths ==
    {FirstBusPath(Prefix(S1)), LastBusPath(Prefix(S1)), TimesPath(Prefix(S1))}
        \cup {HourlyPath(PoolWeekday, hour, Prefix(S1)) : hour \in RunHours}

\* What the two matchers can return, over every answer of hketa.
RunFirstResults ==
    [t \in PoolAnchors |->
        {find_first_bus_best_match(etas_next, etas_one_after, t) :
            etas_next \in RunFeeds, etas_one_after \in RunFeeds}]

RunLastResults ==
    [t \in PoolAnchors |->
        {find_last_bus_best_match(etas_this, etas_next, etas_previous, t) :
            etas_this \in RunFeeds, etas_next \in RunFeeds, etas_previous \in RunFeeds}]

\* Where an iteration is: the store as it has left it so far, the
\* write_file calls it has made, "running" or how it ended, and the sample
\* the resolver gave it.
Running(st) == st.outcome = "running"
Ended(st, outcome) == [st EXCEPT !.outcome = outcome]

\* Lines 293-303, 317-325, 339-349: the distance of the two stops, the
\* floor for light rail, and write_file, which is given the floored value.
WriteSample(st, path, in, raw) ==
    LET diff == LightRailFloor(in.co, raw)
        w == write_file(st.files, st.dirs, path, in.key[1], in.key[2], diff,
                        PoolDistance(in.key))
    IN  [st EXCEPT !.files = w.files, !.dirs = w.dirs,
                   !.calls = Append(st.calls,
                                    [path |-> path, key |-> in.key, diff |-> diff])]

\* Lines 285-312: the anchor and the first-bus matcher.
RunFirst(fs, ds, in) ==
    LET st == [files |-> fs, dirs |-> ds, calls |-> <<>>, outcome |-> "running",
               sample |-> None]
    IN  IF ~HeadHasEta(in.initial_etas) THEN Ended(st, "no_anchor")
        ELSE IF ~ParseOk(in.initial_etas.list[1].eta) THEN Ended(st, "raised")
        ELSE IF in.first.kind = "raise" THEN Ended(st, "raised")
        ELSE IF in.first.kind = "none" THEN st
        ELSE WriteSample(st, FirstBusPath(Prefix(in.key[1])), in, in.first.diff)

\* Lines 314-334: the last-bus matcher.
RunLast(st, in) ==
    IF ~Running(st) THEN st
    ELSE IF in.last.kind = "raise" THEN Ended(st, "raised")
    ELSE IF in.last.kind = "none" THEN st
    ELSE WriteSample(st, LastBusPath(Prefix(in.key[1])), in, in.last.diff)

\* A variant that stores the least segment time when nothing matches.
RunResolveStoresFloor(st, in) ==
    IF ~Running(st) THEN st
    ELSE LET r == find_best_match(in.etas_next, st.files, st.dirs,
                                  parse_datetime(in.initial_etas.list[1].eta),
                                  Prefix(in.key[1]), in.key[1], in.key[2])
             st1 == [st EXCEPT !.dirs = r.dirs]
         IN  IF r.out.kind = "raise" THEN Ended(st1, "raised")
             ELSE IF r.out.kind = "none"
             THEN Ended(WriteSample(st1, TimesPath(Prefix(in.key[1])), in,
                                    Num(MIN_SEGMENT_SECONDS)),
                        IF Falsy(in.etas_next) THEN "no_data" ELSE "no_match")
             ELSE [st1 EXCEPT !.sample = r.out.diff]

\* Lines 337-338: find_best_match.
RunResolve(st, in) ==
    IF ~Running(st) THEN st
    ELSE LET r == find_best_match(in.etas_next, st.files, st.dirs,
                                  parse_datetime(in.initial_etas.list[1].eta),
                                  Prefix(in.key[1]), in.key[1], in.key[2])
             st1 == [st EXCEPT !.dirs = r.dirs]
         IN  IF r.out.kind = "raise" THEN Ended(st1, "raised")
             ELSE IF r.out.kind = "none"
             THEN Ended(st1, IF Falsy(in.etas_next) THEN "no_data" ELSE "no_match")
             ELSE [st1 EXCEPT !.sample = r.out.diff]

\* Lines 339-348: the write to the all-time shard.
RunWriteTimes(st, in) ==
    IF ~Running(st) THEN st
    ELSE WriteSample(st, TimesPath(Prefix(in.key[1])), in, st.sample)

\* A variant that hands on the value the all-time shard now holds.
RunWriteHourlyBlended(st, in) ==
    IF ~Running(st) THEN st
    ELSE Ended(WriteSample(st, HourlyPath(in.weekday, in.hour, Prefix(in.key[1])), in,
                           read_file(st.files, st.dirs, TimesPath(Prefix(in.key[1])),
                                     in.key[1], in.key[2]).value),
               "written")

\* Line 349 and the rest: the write to the hourly shard.
RunWriteHourly(st, in) ==
    IF ~Running(st) THEN st
    ELSE Ended(WriteSample(st, HourlyPath(in.weekday, in.hour, Prefix(in.key[1])), in,
                           st.sample),
               "written")

\* The results the matchers can give for the anchor fetched.
MatcherResults(results, initial_etas) ==
    IF HeadHasEta(initial_etas) /\ ParseOk(initial_etas.list[1].eta)
    THEN results[parse_datetime(initial_etas.list[1].eta)]
    ELSE {[kind |-> "none"]}

InitRun ==
    /\ files = [p \in RunPaths |-> NoFile]
    /\ dirs = RootDirs
    /\ rlast = NoRun
    /\ rhist = [p \in RunPaths |-> [k \in PoolKeys |-> <<>>]]
    /\ nruns = 0
    /\ anchor = None /\ feed = NoEtas /\ matched = Pending
    /\ op = NoCall /\ lastStored = <<>> /\ nwrites = 0
    /\ PoolIdle
    /\ GovIdle
    /\ GateIdle

\* The samples written to a shard for a stop pair, after the calls.
Written(hist, calls) ==
    [p \in RunPaths |-> [k \in PoolKeys |->
        IF \E i \in 1..Len(calls) : calls[i].path = p /\ calls[i].key = k
        THEN Append(hist[p][k],
                    (CHOOSE c \in {calls[i] : i \in 1..Len(calls)} :
                        c.path = p /\ c.key = k).diff)
        ELSE hist[p][k]]]

\* One iteration of run() from the choice of the stop pair on (lines
\* 275-360), stage after stage.
RunOnce ==
    /\ nruns < MaxRuns
    /\ \E co \in RunCos, key \in PoolKeys, hour \in RunHours,
          initial_etas \in AnchorFeeds, etas_next \in RunFeeds :
          \E first \in MatcherResults(RunFirstResults, initial_etas),
             last \in MatcherResults(RunLastResults, initial_etas) :
             LET in == [co |-> co, key |-> key,
                        weekday |-> PoolWeekday, hour |-> hour,
                        initial_etas |-> initial_etas, first |-> first, last |-> last,
                        etas_next |-> etas_next]
             IN  \E st1 \in {RunFirst(files, dirs, in)} :
                 \E st2 \in {RunLast(st1, in)} :
                 \E st3 \in {RunResolve(st2, in)} :
                 \E st4 \in {RunWriteTimes(st3, in)} :
                 \E r \in {RunWriteHourly(st4, in)} :
                     /\ files' = r.files
                     /\ dirs' = r.dirs
                     /\ rlast' = [outcome |-> r.outcome, co |-> co, key |-> key,
                                  hour |-> hour, sample |-> r.sample, calls |-> r.calls,
                                  changed |-> {p \in RunPaths : r.files[p] # files[p]}]
                     /\ rhist' = Written(rhist, r.calls)
    /\ nruns' = nruns + 1
    /\ UNCHANGED <<matchVars, storeVars, poolVars, govVars, gateVars>>

NextRun == RunOnce

SpecRun == InitRun /\ [][NextRun]_vars

---------------------------------------------------------------------------
(* Claims about one iteration of run() (checked under SpecRun).            *)

\* The write_file calls of the last iteration to the all-time shard and to
\* the hourly shards.
SampleCalls ==
    {c \in {rlast.calls[i] : i \in 1..Len(rlast.calls)} :
        c.path[1] \in {"times", "times_hourly"}}

\* The value stored now in a shard for a stop pair.
ShardValue(p, k) == read_file(files, dirs, p, k[1], k[2]).value

\* C13: for a route tagged lightRail every sample run() gives to write_file
\* for the all-time shard and the hourly shard is max(120, segmentSeconds)
\* of the resolver (45 is passed as 120); for any other route it is the
\* resolver's segmentSeconds itself.
C13_LightRailFloor ==
    rlast.outcome = "written" =>
        /\ Cardinality(SampleCalls) = 2
        /\ \A c \in SampleCalls :
              c.diff = IF "lightRail" \in rlast.co
                       THEN (IF RLt(rlast.sample, Num(120)) THEN Num(120)
                             ELSE rlast.sample)
                       ELSE rlast.sample

\* A light-rail iteration resolved 45 seconds and the all-time shard, empty
\* before, now holds 120 for the stop pair.
C13_Witness ==
    /\ rlast.outcome = "written"
    /\ "lightRail" \in rlast.co
    /\ rlast.sample = Num(45)
    /\ nruns = 1
    /\ ShardValue(TimesPath(Prefix(S1)), rlast.key) = Num(120)

\* What a shard holds for a stop pair after the first n of the samples
\* written to it: nothing, the first sample, then at every write either the
\* sample (override) or the blend with the value before.
RECURSIVE MovingAverage(_, _, _)
MovingAverage(samples, n, distance) ==
    IF n = 0 THEN None
    ELSE IF n = 1 THEN samples[1]
    ELSE LET time == MovingAverage(samples, n - 1, distance)
         IN  IF Override(time, samples[n], distance)
             THEN samples[n]
             ELSE Blend(time, samples[n])

Disqualified == rlast.outcome \in {"no_anchor", "no_data", "no_match"}

\* C15 as stated: a disqualified iteration leaves every shard under every
\* root as it was.
C15_DisqualifiedWritesNothing == Disqualified => rlast.changed = {}

\* C15, amended: a disqualified iteration leaves every all-time and hourly
\* shard as it was, and every shard when the anchor was missing; the
\* first-bus and last-bus shards may have been written before
\* find_best_match was called.
C15_DisqualifiedKeepsSampleShards ==
    Disqualified =>
        /\ \A p \in rlast.changed : p[1] \in {"first_bus_times", "last_bus_times"}
        /\ rlast.outcome = "no_anchor" => rlast.changed = {}

\* The first-bus matcher found a match and stored it, find_best_match then
\* found none, and the all-time shard, written before, is as it was.
C15_Witness ==
    /\ rlast.outcome = "no_match"
    /\ FirstBusPath(Prefix(S1)) \in rlast.changed
    /\ files[TimesPath(Prefix(S1))].exists

---------------------------------------------------------------------------
(* More claims about the estimate store (checked under SpecStore).         *)

\* C16: read_file changes nothing in storage, whether or not the shard file
\* and its parent directory exist: the files, their contents and the
\* directories are after the call what they were before it.
C16_ReadChangesNothing ==
    [][op'.op = "read" => (files' = files /\ dirs' = dirs)]_vars

\* C17: a write_file to a shard that is absent or cannot be decoded leaves
\* a well-formed document holding the one entry (A, B) = the new sample and
\* nothing else; a read_file of such a shard returns None.
C17_LostShardIsEmpty ==
    /\ (op.op = "write" /\ op.found # "document") =>
          /\ FileState(files[op.path]) = "document"
          /\ json_load(files[op.path].text) = Single(op.key[1], op.key[2], op.new)
    /\ (op.op = "read" /\ FileState(files[op.path]) # "document") =>
          op.value = None

\* A write found a half-written shard that held 90 for the key and left a
\* document holding the new sample 30 alone.
C17_Witness ==
    /\ op.op = "write"
    /\ op.found = "undecodable"
    /\ op.key = <<S1, S2>> /\ op.new = Num(30)
    /\ files[op.path] = FileOf(json_dump(Single(S1, S2, Num(30))))

\* C19: a write_file for (A, B) leaves every other key of the shard and
\* every key of every other shard with its value, and no step ever removes
\* a key that a shard holds.
C19_WriteTouchesOneKey ==
    [][/\ op'.op = "write" =>
            \A p \in StorePaths, k \in StoreKeys :
                (p # op'.path \/ k # op'.key) => StoredNow(p, k)' = StoredNow(p, k)
       /\ \A p \in StorePaths, k \in StoreKeys :
            StoredNow(p, k) # None => StoredNow(p, k)' # None]_vars

\* The last write went to a shard that holds another key as well.
C19_Witness ==
    /\ op.op = "write"
    /\ op.found = "document"
    /\ \E k \in StoreKeys : k # op.key /\ StoredNow(op.path, k) # None

---------------------------------------------------------------------------
(* One more claim about the resolver (checked under SpecMatch).            *)

\* The historical values that exist for the stop pair.
Available == {HistFirst, HistLast} \ {None}

Least(S) == CHOOSE x \in S : \A y \in S : RLe(x, y)
Greatest(S) == CHOOSE x \in S : \A y \in S : RLe(y, x)

\* C18: minDiff is max(5, 0.75 * the least of the first-bus and last-bus
\* values that exist) and maxDiff is min(3600, 1.25 * the greatest of
\* them), 5 and 3600 when neither exists; so minDiff >= 5, maxDiff <= 3600
\* and every segmentSeconds returned lies in [5, 3600].
C18_WindowFromHistory ==
    /\ WindowLo = IF Available = {} THEN Num(5)
                  ELSE LET x == RMul(Rat(3, 4), Least(Available))
                       IN  IF RLt(x, Num(5)) THEN Num(5) ELSE x
    /\ WindowHi = IF Available = {} THEN Num(3600)
                  ELSE LET x == RMul(Rat(5, 4), Greatest(Available))
                       IN  IF RLt(Num(3600), x) THEN Num(3600) ELSE x
    /\ RLe(Num(5), WindowLo)
    /\ RLe(WindowHi, Num(3600))
    /\ matched.kind = "match" =>
          (RLe(Num(5), matched.diff) /\ RLe(matched.diff, Num(3600)))

\* A match was returned with a first-bus value of 400 and a last-bus value
\* of 8: the window is [6, 500].
C18_Witness ==
    /\ matched.kind = "match"
    /\ HistFirst = Num(400) /\ HistLast = Num(8)
    /\ WindowLo = Num(6) /\ WindowHi = Num(500)

---------------------------------------------------------------------------
(* The throttle gate under several workers: lines 255-260 of roll_chance   *)
(* run by every worker of the pool on the one global previous_gmb_query.   *)
(* Nothing in roll_chance takes a lock, so another thread may run between  *)
(* the reading of the clock (line 257), the test of the global (line 258)  *)
(* and the assignment to it (line 260).  The hour and the draw play no     *)
(* part in whether a call is forced to chance 0 and are left out here.     *)

InitGate ==
    /\ previous_gmb_query = 0
    /\ clock = ClockStart
    /\ qpc = [w \in Workers |-> "idle"]
    /\ qnow = [w \in Workers |-> 0]
    /\ qpassed = <<>>
    /\ gpc = "idle" /\ groute = NoRoute /\ ginfo = None /\ glast = NoRoll
    /\ glog = None /\ grejects = 0
    /\ files = <<>> /\ dirs = RootDirs
    /\ anchor = None /\ feed = NoEtas /\ matched = Pending
    /\ op = NoCall /\ lastStored = <<>> /\ nwrites = 0
    /\ PoolIdle
    /\ RunIdle

gateRest == <<clock, gpc, groute, ginfo, glast, glog, grejects, files, dirs,
              matchVars, storeVars, poolVars, runVars>>

\* Lines 245-257: a worker calls roll_chance.  For a route of the throttled
\* class with a digit in its number it reads the clock; for any other route
\* the call never comes to line 256.
GateEnter(w) ==
    /\ qpc[w] = "idle"
    /\ \E route \in Routes :
          IF AnyDigit(route.route) /\ "gmb" \in route.co
          THEN /\ qpc' = [qpc EXCEPT ![w] = "test"]
               /\ qnow' = [qnow EXCEPT ![w] = clock]
          ELSE UNCHANGED <<qpc, qnow>>
    /\ UNCHANGED <<previous_gmb_query, qpassed, gateRest>>

\* Line 258: the global is read and compared; when the last query is too
\* recent the chance is 0 and the call ends rejected.
GateTest(w) ==
    /\ qpc[w] = "test"
    /\ qpc' = [qpc EXCEPT ![w] =
                  IF TooSoon(qnow[w], previous_gmb_query) THEN "idle" ELSE "set"]
    /\ UNCHANGED <<previous_gmb_query, qnow, qpassed, gateRest>>

\* Line 260: previous_gmb_query = now; the call has passed the gate.
GateSet(w) ==
    /\ qpc[w] = "set"
    /\ Len(qpassed) < MaxPasses
    /\ previous_gmb_query' = qnow[w]
    /\ qpassed' = Append(qpassed, qnow[w])
    /\ qpc' = [qpc EXCEPT ![w] = "idle"]
    /\ UNCHANGED <<qnow, gateRest>>

\* A second passes.
GateTick == Tick /\ UNCHANGED gateVars

NextGate ==
    \/ \E w \in Workers : GateEnter(w) \/ GateTest(w) \/ GateSet(w)
    \/ GateTick

SpecGate == InitGate /\ [][NextGate]_vars

=============================================================================
